---- MODULE Spec2Model ----
(***************************************************************************)
(* Batching of interest-rate-swap protos (proto_utils.py).                 *)
(*                                                                         *)
(* A swap proto is a record; a SwapLeg is a tagged union whose `which`     *)
(* field names the member of the oneof that is set.  Python lists are      *)
(* sequences; Python's None is the empty tuple <<>> and a present key      *)
(* feature x is the one-element tuple <<x>>, so that the two can be        *)
(* compared.  Proto enums are the integers of their wire values.           *)
(***************************************************************************)
EXTENDS Integers, Sequences, FiniteSets, TLC

VARIABLES
    version,        \* which pipeline runs: 1 = from_protos, 2 = from_protos_v2
    proto_list,     \* the swaps the loop has consumed so far, in input order
    prepare_swaps,  \* the local dict of from_protos: hash -> batch
    raised,         \* "none", or the ValueError that ended the call
    swap_a, swap_b, \* the two arguments of the calls of SpecKeys
    call,           \* the function called last
    out,            \* what it returned
    current_leg,    \* first argument of update_leg / update_leg_v2 (mutated)
    leg,            \* second argument of update_leg / update_leg_v2
    merged          \* "none", "ok", or the error the last call raised

vars == <<version, proto_list, prepare_swaps, raised, swap_a, swap_b, call, out,
          current_leg, leg, merged>>

None == <<>>
Some(x) == <<x>>

(***************************************************************************)
(* Collaborators outside proto_utils.py.                                   *)
(***************************************************************************)
\* instrument_utils.decimal_to_double: units + nanos / 1e9, kept here as the
\* number of billionths.
decimal_to_double(dec) == dec.units * 1000000000 + dec.nanos

\* currencies.from_proto_value / business_days.*_from_proto_value /
\* daycount_conventions.from_proto_value: the enum member of a wire value.
currency_from_proto_value(v) == <<"Currency", v>>
convention_from_proto_value(v) == <<"BusinessDayConvention", v>>
daycount_from_proto_value(v) == <<"DayCountConventions", v>>
holiday_from_proto_value(v) == <<"BankHolidays", v>>

\* rate_indices.RateIndex.from_proto
RateIndex_from_proto(p) ==
    [type |-> <<"RateIndexType", p.type>>, name |-> p.name, source |-> p.source]

\* market_data_utils.period_from_list: the PeriodTensor of a pair
\* (period type, list of amounts).
period_from_list(period) == <<"PeriodTensor", period[1], period[2]>>

IsPeriodTensor(frequency) == Len(frequency) = 3

HasField(leg_proto, f) == leg_proto.which = f

(***************************************************************************)
(* leg_from_proto, leg_from_proto_v2                                       *)
(***************************************************************************)
\* type 5 is not read as type 3
_frequency_and_multiplier_no_alias(freq_type) ==
    LET multiplier == 1
    IN  <<freq_type, multiplier>>

_frequency_and_multiplier(freq_type) ==
    LET multiplier == 1
    IN  IF freq_type = 5 THEN <<3, multiplier>> ELSE <<freq_type, multiplier>>

leg_from_proto(leg_proto) ==
    IF HasField(leg_proto, "fixed_leg")
    THEN LET l == leg_proto.fixed_leg
         IN  [kind |-> "FixedCouponSpecs",
              currency |-> currency_from_proto_value(l.currency),
              coupon_frequency |-> l.coupon_frequency,
              notional_amount |-> <<decimal_to_double(l.notional_amount)>>,
              fixed_rate |-> <<decimal_to_double(l.fixed_rate)>>,
              settlement_days |-> <<l.settlement_days>>,
              businessday_rule |-> convention_from_proto_value(l.business_day_convention),
              daycount_convention |-> daycount_from_proto_value(l.daycount_convention),
              calendar |-> holiday_from_proto_value(l.bank_holidays)]
    ELSE LET l == leg_proto.floating_leg
             rate_index == RateIndex_from_proto(l.floating_rate_type)
         IN  [kind |-> "FloatCouponSpecs",
              currency |-> currency_from_proto_value(l.currency),
              coupon_frequency |-> l.coupon_frequency,
              reset_frequency |-> l.reset_frequency,
              notional_amount |-> <<decimal_to_double(l.notional_amount)>>,
              floating_rate_type |-> [rate_index EXCEPT !.name = <<rate_index.name>>,
                                                        !.source = <<rate_index.source>>],
              settlement_days |-> <<l.settlement_days>>,
              businessday_rule |-> convention_from_proto_value(l.business_day_convention),
              daycount_convention |-> daycount_from_proto_value(l.daycount_convention),
              spread |-> <<decimal_to_double(l.spread)>>,
              calendar |-> holiday_from_proto_value(l.bank_holidays)]

leg_from_proto_v2(leg_proto) ==
    IF HasField(leg_proto, "fixed_leg")
    THEN LET l == leg_proto.fixed_leg
             cf == _frequency_and_multiplier(l.coupon_frequency.type)
         IN  [kind |-> "FixedCouponSpecs",
              currency |-> <<currency_from_proto_value(l.currency)>>,
              coupon_frequency |-> <<cf[1], <<cf[2] * l.coupon_frequency.amount>> >>,
              notional_amount |-> <<decimal_to_double(l.notional_amount)>>,
              fixed_rate |-> <<decimal_to_double(l.fixed_rate)>>,
              settlement_days |-> <<l.settlement_days>>,
              businessday_rule |-> convention_from_proto_value(l.business_day_convention),
              daycount_convention |-> daycount_from_proto_value(l.daycount_convention),
              calendar |-> holiday_from_proto_value(l.bank_holidays)]
    ELSE LET l == leg_proto.floating_leg
             rate_index == RateIndex_from_proto(l.floating_rate_type)
             cf == _frequency_and_multiplier(l.coupon_frequency.type)
             rf == _frequency_and_multiplier(l.reset_frequency.type)
         IN  [kind |-> "FloatCouponSpecs",
              currency |-> <<currency_from_proto_value(l.currency)>>,
              coupon_frequency |-> <<cf[1], <<cf[2] * l.coupon_frequency.amount>> >>,
              reset_frequency |-> <<rf[1], <<rf[2] * l.reset_frequency.amount>> >>,
              notional_amount |-> <<decimal_to_double(l.notional_amount)>>,
              floating_rate_type |-> << [rate_index EXCEPT !.name = <<rate_index.name>>,
                                                           !.source = <<rate_index.source>>] >>,
              settlement_days |-> <<l.settlement_days>>,
              businessday_rule |-> convention_from_proto_value(l.business_day_convention),
              daycount_convention |-> daycount_from_proto_value(l.daycount_convention),
              spread |-> <<decimal_to_double(l.spread)>>,
              calendar |-> holiday_from_proto_value(l.bank_holidays)]

(***************************************************************************)
(* update_rate_index, update_leg, update_leg_v2.  Each mutates its first   *)
(* argument in place and may raise part-way; the result is the first       *)
(* argument as the call leaves it, and the error raised, if any.           *)
(***************************************************************************)
\* the grave accent that quotes the argument names in the message
Backtick == SubSeq("`'", 1, 1)

\* the two literals of the message are adjacent, with no space between
\* "be" and "of"
TypeMismatch ==
    "ValueError: Both " \o Backtick \o "current_leg" \o Backtick \o " and "
        \o Backtick \o "leg" \o Backtick \o " should beof the same "
        \o "fixed or float type."

CanNotJoin(t1, t2) ==
    "ValueError: Can not join " \o ToString(t1[2]) \o " and " \o ToString(t2[2])

update_rate_index(current_index, index) ==
    IF current_index.type # index.type
    THEN [obj |-> current_index, err |-> CanNotJoin(current_index.type, index.type)]
    ELSE [obj |-> [current_index EXCEPT !.name = current_index.name \o index.name,
                                        !.source = current_index.source \o index.source],
          err |-> "none"]

\* the new entries are put in front of the accumulated ones
update_leg_prepend(cur, new) ==
    IF cur.kind # new.kind
    THEN [obj |-> cur, err |-> TypeMismatch]
    ELSE IF cur.kind = "FixedCouponSpecs"
    THEN [obj |-> [cur EXCEPT !.notional_amount = new.notional_amount \o @,
                              !.fixed_rate = new.fixed_rate \o @,
                              !.settlement_days = new.settlement_days \o @],
          err |-> "none"]
    ELSE LET ri == update_rate_index(new.floating_rate_type, cur.floating_rate_type)
         IN  [obj |-> [cur EXCEPT !.notional_amount = new.notional_amount \o @,
                                  !.floating_rate_type = ri.obj,
                                  !.settlement_days = new.settlement_days \o @,
                                  !.spread = new.spread \o @],
              err |-> ri.err]

\* a leg of the other kind is merged on the fields the two kinds share
update_leg_coerce(cur, new) ==
    IF cur.kind # new.kind
    THEN [obj |-> [cur EXCEPT !.notional_amount = @ \o new.notional_amount,
                              !.settlement_days = @ \o new.settlement_days],
          err |-> "none"]
    ELSE IF cur.kind = "FixedCouponSpecs"
    THEN [obj |-> [cur EXCEPT !.notional_amount = @ \o new.notional_amount,
                              !.fixed_rate = @ \o new.fixed_rate,
                              !.settlement_days = @ \o new.settlement_days],
          err |-> "none"]
    ELSE LET c1 == [cur EXCEPT !.notional_amount = @ \o new.notional_amount]
             ri == update_rate_index(c1.floating_rate_type, new.floating_rate_type)
         IN  IF ri.err # "none"
             THEN [obj |-> c1, err |-> ri.err]
             ELSE [obj |-> [c1 EXCEPT !.floating_rate_type = ri.obj,
                                      !.settlement_days = @ \o new.settlement_days,
                                      !.spread = @ \o new.spread],
                   err |-> "none"]

update_leg(cur, new) ==
    IF cur.kind = "FixedCouponSpecs"
    THEN IF new.kind # "FixedCouponSpecs"
         THEN [obj |-> cur, err |-> TypeMismatch]
         ELSE [obj |-> [cur EXCEPT !.notional_amount = @ \o new.notional_amount,
                                   !.fixed_rate = @ \o new.fixed_rate,
                                   !.settlement_days = @ \o new.settlement_days],
               err |-> "none"]
    ELSE IF new.kind # "FloatCouponSpecs"
         THEN [obj |-> cur, err |-> TypeMismatch]
         ELSE LET c1 == [cur EXCEPT !.notional_amount = @ \o new.notional_amount]
                  ri == update_rate_index(c1.floating_rate_type, new.floating_rate_type)
              IN  IF ri.err # "none"
                  THEN [obj |-> c1, err |-> ri.err]
                  ELSE [obj |-> [c1 EXCEPT !.floating_rate_type = ri.obj,
                                           !.settlement_days = @ \o new.settlement_days,
                                           !.spread = @ \o new.spread],
                        err |-> "none"]

\* the settlement days of the new leg are not accumulated
update_leg_v2_short(cur, new) ==
    IF cur.kind # new.kind
    THEN [obj |-> cur, err |-> TypeMismatch]
    ELSE IF cur.kind = "FixedCouponSpecs"
    THEN [obj |-> [cur EXCEPT !.currency = @ \o new.currency,
                              !.notional_amount = @ \o new.notional_amount,
                              !.fixed_rate = @ \o new.fixed_rate,
                              !.coupon_frequency =
                                  <<@[1], @[2] \o new.coupon_frequency[2]>>],
          err |-> "none"]
    ELSE [obj |-> [cur EXCEPT !.currency = @ \o new.currency,
                              !.notional_amount = @ \o new.notional_amount,
                              !.floating_rate_type = @ \o new.floating_rate_type,
                              !.spread = @ \o new.spread,
                              !.coupon_frequency =
                                  <<@[1], @[2] \o new.coupon_frequency[2]>>,
                              !.reset_frequency =
                                  <<@[1], @[2] \o new.reset_frequency[2]>>],
          err |-> "none"]

update_leg_v2(cur, new) ==
    IF cur.kind = "FixedCouponSpecs"
    THEN IF new.kind # "FixedCouponSpecs"
         THEN [obj |-> cur, err |-> TypeMismatch]
         ELSE [obj |-> [cur EXCEPT !.currency = @ \o new.currency,
                                   !.notional_amount = @ \o new.notional_amount,
                                   !.fixed_rate = @ \o new.fixed_rate,
                                   !.settlement_days = @ \o new.settlement_days,
                                   !.coupon_frequency =
                                       <<@[1], @[2] \o new.coupon_frequency[2]>>],
               err |-> "none"]
    ELSE IF new.kind # "FloatCouponSpecs"
         THEN [obj |-> cur, err |-> TypeMismatch]
         ELSE [obj |-> [cur EXCEPT !.currency = @ \o new.currency,
                                   !.notional_amount = @ \o new.notional_amount,
                                   !.floating_rate_type = @ \o new.floating_rate_type,
                                   !.settlement_days = @ \o new.settlement_days,
                                   !.spread = @ \o new.spread,
                                   !.coupon_frequency =
                                       <<@[1], @[2] \o new.coupon_frequency[2]>>,
                                   !.reset_frequency =
                                       <<@[1], @[2] \o new.reset_frequency[2]>>],
               err |-> "none"]

(***************************************************************************)
(* Keys and hashes                                                         *)
(***************************************************************************)
NoneList(n) == [i \in 1..n |-> None]

\* a key that also reads a per-swap datum
_fixed_leg_key_with_settlement(l) ==
    <<Some(l.coupon_frequency.type), Some(l.coupon_frequency.amount),
      Some(l.daycount_convention), Some(l.settlement_days)>>

_fixed_leg_key(l) ==
    <<Some(l.coupon_frequency.type), Some(l.coupon_frequency.amount),
      Some(l.daycount_convention), Some(l.business_day_convention)>>

\* a legacy key that forgets the rate-index type
_floating_leg_key_no_index(l) ==
    <<Some(l.coupon_frequency.type), Some(l.coupon_frequency.amount),
      Some(l.reset_frequency.type), Some(l.reset_frequency.amount),
      Some(l.daycount_convention), Some(l.business_day_convention), Some(0)>>

_floating_leg_key(l) ==
    <<Some(l.coupon_frequency.type), Some(l.coupon_frequency.amount),
      Some(l.reset_frequency.type), Some(l.reset_frequency.amount),
      Some(l.daycount_convention), Some(l.business_day_convention),
      Some(l.floating_rate_type.type)>>

\* the pair (key_1, key_2)
_get_keys(leg_proto) ==
    IF HasField(leg_proto, "fixed_leg")
    THEN <<_fixed_leg_key(leg_proto.fixed_leg), NoneList(7)>>
    ELSE <<NoneList(4), _floating_leg_key(leg_proto.floating_leg)>>

\* the rule looks at the pay leg alone
FlipRule_pay_only(pay_leg_key_1, receive_leg_key_1) ==
    pay_leg_key_1[1] = None

FlipRule(pay_leg_key_1, receive_leg_key_1) ==
    pay_leg_key_1[1] = None /\ receive_leg_key_1[1] # None

\* the pair (flip_legs, key)
_get_legs_hash_key(leg_1, leg_2) ==
    LET pay == _get_keys(leg_1)
        rec == _get_keys(leg_2)
        key_1 == pay[1] \o pay[2]
        key_2 == rec[1] \o rec[2]
        flip_legs == FlipRule(pay[1], rec[1])
    IN  IF flip_legs THEN <<TRUE, key_2 \o key_1>> ELSE <<FALSE, key_1 \o key_2>>

\* a refined key that forgets the business-day convention
_fixed_leg_key_v2_no_bdc(l) ==
    LET t == l.coupon_frequency.type
        coupon_freq_type == IF t = 5 THEN 3 ELSE t
    IN  <<Some(coupon_freq_type), Some(l.daycount_convention), Some(0)>>

_fixed_leg_key_v2(l) ==
    LET t == l.coupon_frequency.type
        coupon_freq_type == IF t = 5 THEN 3 ELSE t
    IN  <<Some(coupon_freq_type), Some(l.daycount_convention),
          Some(l.business_day_convention)>>

_floating_leg_key_v2(l) ==
    <<Some(_frequency_and_multiplier(l.coupon_frequency.type)[1]),
      Some(_frequency_and_multiplier(l.reset_frequency.type)[1]),
      Some(l.daycount_convention), Some(l.business_day_convention)>>

_get_keys_v2(leg_proto) ==
    IF HasField(leg_proto, "fixed_leg")
    THEN <<_fixed_leg_key_v2(leg_proto.fixed_leg), NoneList(4)>>
    ELSE <<NoneList(3), _floating_leg_key_v2(leg_proto.floating_leg)>>

_get_legs_hash_key_v2(leg_1, leg_2) ==
    LET pay == _get_keys_v2(leg_1)
        rec == _get_keys_v2(leg_2)
        key_1 == pay[1] \o pay[2]
        key_2 == rec[1] \o rec[2]
        flip_legs == FlipRule(pay[1], rec[1])
    IN  IF flip_legs THEN <<TRUE, key_2 \o key_1>> ELSE <<FALSE, key_1 \o key_2>>

\* json.dumps of a tuple of ints and Nones: "[3, null, 1]"
json_item(x) == IF x = None THEN "null" ELSE ToString(x[1])

RECURSIVE json_join(_)
json_join(obj) ==
    IF Len(obj) = 0 THEN ""
    ELSE IF Len(obj) = 1 THEN json_item(obj[1])
    ELSE json_item(obj[1]) \o ", " \o json_join(Tail(obj))

json_dumps(obj) == "[" \o json_join(obj) \o "]"

\* md5(...).hexdigest() is represented by its preimage: the digest of two
\* texts is equal exactly when the texts are (no collisions).
_hasher(obj) == json_dumps(obj)

\* the pair (h, flip_legs)
get_hash(swap_proto) ==
    LET fk == _get_legs_hash_key(swap_proto.pay_leg, swap_proto.receive_leg)
    IN  <<_hasher(fk[2] \o <<Some(swap_proto.currency)>> \o <<Some(swap_proto.bank_holidays)>>),
          fk[1]>>

get_hash_v2(swap_proto) ==
    LET fk == _get_legs_hash_key_v2(swap_proto.pay_leg, swap_proto.receive_leg)
    IN  <<_hasher(fk[2] \o <<Some(swap_proto.bank_holidays)>>), fk[1]>>

(***************************************************************************)
(* from_protos, from_protos_v2: one iteration of the loop over proto_list, *)
(* and the whole call as the fold of the iterations.                       *)
(***************************************************************************)
DateList(date) == <<date.year, date.month, date.day>>

Negated(l) == [l EXCEPT !.notional_amount = [i \in 1..Len(@) |-> -(@[i])]]

\* the roles are exchanged but the notionals keep their sign
ShuffleLegs_no_negation(pay_leg_shuffled, receive_leg_shuffled, flip_legs) ==
    IF flip_legs
    THEN <<receive_leg_shuffled, pay_leg_shuffled>>
    ELSE <<pay_leg_shuffled, receive_leg_shuffled>>

\* the pair (pay_leg, receive_leg) after lines 264-275 / 314-325
ShuffleLegs(pay_leg_shuffled, receive_leg_shuffled, flip_legs) ==
    IF flip_legs
    THEN <<Negated(receive_leg_shuffled), Negated(pay_leg_shuffled)>>
    ELSE <<pay_leg_shuffled, receive_leg_shuffled>>

\* lines 278-292 / 328-342: merge into the batch of h, or start it
Accumulate(ps, h, legs, swap_proto, v) ==
    LET start_date == DateList(swap_proto.effective_date)
        maturity_date == DateList(swap_proto.maturity_date)
        name == swap_proto.metadata.id
        instrument_type == swap_proto.metadata.instrument_type
    IN  IF h \in DOMAIN ps
        THEN LET p == IF v = 1 THEN update_leg(ps[h].pay_leg, legs[1])
                               ELSE update_leg_v2(ps[h].pay_leg, legs[1])
                 r == IF v = 1 THEN update_leg(ps[h].receive_leg, legs[2])
                               ELSE update_leg_v2(ps[h].receive_leg, legs[2])
             IN  IF p.err # "none"
                 THEN [ps |-> [ps EXCEPT ![h].pay_leg = p.obj], err |-> p.err]
                 ELSE IF r.err # "none"
                 THEN [ps |-> [ps EXCEPT ![h].pay_leg = p.obj,
                                         ![h].receive_leg = r.obj],
                       err |-> r.err]
                 ELSE [ps |-> [ps EXCEPT ![h].pay_leg = p.obj,
                                         ![h].receive_leg = r.obj,
                                         ![h].start_date = Append(@, start_date),
                                         ![h].maturity_date = Append(@, maturity_date),
                                         ![h].batch_names =
                                             Append(@, <<name, instrument_type>>)],
                       err |-> "none"]
        ELSE [ps |-> (h :> [start_date |-> <<start_date>>,
                            maturity_date |-> <<maturity_date>>,
                            pay_leg |-> legs[1],
                            receive_leg |-> legs[2],
                            swap_config |-> None,
                            batch_names |-> << <<name, instrument_type>> >>]) @@ ps,
              err |-> "none"]

from_protos_iter(ps, swap_proto) ==
    LET hf == get_hash(swap_proto)
        legs == ShuffleLegs(leg_from_proto(swap_proto.pay_leg),
                            leg_from_proto(swap_proto.receive_leg), hf[2])
    IN  Accumulate(ps, hf[1], legs, swap_proto, 1)

from_protos_v2_iter(ps, swap_proto) ==
    LET hf == get_hash_v2(swap_proto)
        legs == ShuffleLegs(leg_from_proto_v2(swap_proto.pay_leg),
                            leg_from_proto_v2(swap_proto.receive_leg), hf[2])
    IN  Accumulate(ps, hf[1], legs, swap_proto, 2)

EmptyDict == [h \in {} |-> None]

RECURSIVE Loop(_, _, _)
Loop(acc, list, v) ==
    IF Len(list) = 0 \/ acc.err # "none" THEN acc
    ELSE Loop(IF v = 1 THEN from_protos_iter(acc.ps, Head(list))
                       ELSE from_protos_v2_iter(acc.ps, Head(list)),
              Tail(list), v)

from_protos(list) == Loop([ps |-> EmptyDict, err |-> "none"], list, 1)

from_protos_v2(list) == Loop([ps |-> EmptyDict, err |-> "none"], list, 2)

(***************************************************************************)
(* Inputs.  A swap is built from its leg layout, its structural fields     *)
(* and the ids of its data (per leg: notional, rate or spread, settlement  *)
(* days, index name and source; per swap: dates and metadata).             *)
(***************************************************************************)
MaxSwaps == 3

Kinds == {"fixed_leg", "floating_leg"}
Layouts == Kinds \X Kinds

BaseLeg == [cur |-> 1, ctype |-> 3, camt |-> 3, rtype |-> 3, ramt |-> 3,
            dcc |-> 1, bdc |-> 1, hol |-> 1, idx |-> 1]
Base == [pay |-> BaseLeg, rec |-> BaseLeg, scur |-> 1, shol |-> 1]

LegFields == DOMAIN BaseLeg
Alt(f) == CASE f \in {"ctype", "rtype"} -> {4, 5}
            [] f \in {"camt", "ramt"} -> {6}
            [] OTHER -> {2}

Dev(side, f, v) == [Base EXCEPT ![side][f] = v]

\* the base and every structure that differs from it in exactly one field
Structures ==
    {Base}
    \cup {Dev(side, f, v) : <<side, f, v>> \in
              {t \in {"pay", "rec"} \X LegFields \X {2, 4, 5, 6} : t[3] \in Alt(t[2])}}
    \cup {[Base EXCEPT !.scur = 2], [Base EXCEPT !.shol = 2]}

Dec(u, n) == [units |-> u, nanos |-> n]

MkLeg(kind, lp, d) ==
    IF kind = "fixed_leg"
    THEN [which |-> "fixed_leg",
          fixed_leg |->
             [currency |-> lp.cur,
              coupon_frequency |-> [type |-> lp.ctype, amount |-> lp.camt],
              notional_amount |-> Dec(d, 0),
              fixed_rate |-> Dec(0, d * 10000000),
              settlement_days |-> d + 1,
              business_day_convention |-> lp.bdc,
              daycount_convention |-> lp.dcc,
              bank_holidays |-> lp.hol]]
    ELSE [which |-> "floating_leg",
          floating_leg |->
             [currency |-> lp.cur,
              coupon_frequency |-> [type |-> lp.ctype, amount |-> lp.camt],
              reset_frequency |-> [type |-> lp.rtype, amount |-> lp.ramt],
              notional_amount |-> Dec(d, 0),
              floating_rate_type |-> [type |-> lp.idx,
                                      name |-> "name" \o ToString(d),
                                      source |-> "source" \o ToString(d)],
              settlement_days |-> d + 1,
              business_day_convention |-> lp.bdc,
              daycount_convention |-> lp.dcc,
              spread |-> Dec(0, d * 1000000),
              bank_holidays |-> lp.hol]]

\* dat = <<data id of the pay leg, of the receive leg, of the swap>>
MkSwap(layout, st, dat) ==
    [pay_leg |-> MkLeg(layout[1], st.pay, dat[1]),
     receive_leg |-> MkLeg(layout[2], st.rec, dat[2]),
     currency |-> st.scur,
     bank_holidays |-> st.shol,
     effective_date |-> [year |-> 2020 + dat[3], month |-> dat[3], day |-> 10 + dat[3]],
     maturity_date |-> [year |-> 2030 + dat[3], month |-> 6 + dat[3], day |-> 20 + dat[3]],
     metadata |-> [id |-> "swap" \o ToString(dat[3]), instrument_type |-> "SWAP"]]

\* first arguments of the calls of SpecKeys, and second arguments
SwapsA == {MkSwap(l, st, <<1, 2, 1>>) : l \in Layouts, st \in Structures}
SwapsB == {MkSwap(l, st, dat) : l \in Layouts, st \in Structures,
                                dat \in {<<1, 2, 1>>, <<2, 1, 1>>, <<2, 1, 2>>}}

FF == <<"fixed_leg", "floating_leg">>

\* the swaps from_protos is fed
Protos ==
    { MkSwap(FF, Base, <<1, 1, 1>>),
      MkSwap(FF, Base, <<2, 2, 2>>),
      MkSwap(<<"floating_leg", "fixed_leg">>, Base, <<1, 2, 1>>),
      MkSwap(<<"fixed_leg", "fixed_leg">>, Base, <<1, 2, 2>>),
      MkSwap(<<"floating_leg", "floating_leg">>, Base, <<2, 1, 1>>),
      MkSwap(<<"floating_leg", "floating_leg">>, Dev("pay", "idx", 2), <<1, 2, 2>>),
      MkSwap(FF, Dev("pay", "camt", 6), <<2, 1, 2>>),
      MkSwap(FF, Dev("pay", "ctype", 5), <<1, 2, 2>>),
      MkSwap(FF, Dev("rec", "idx", 2), <<2, 1, 1>>),
      MkSwap(FF, Dev("pay", "dcc", 2), <<1, 1, 2>>),
      MkSwap(FF, Dev("pay", "cur", 2), <<2, 2, 1>>),
      MkSwap(FF, Dev("rec", "hol", 2), <<1, 2, 1>>) }

\* single-swap descriptors, the arguments of update_leg and update_leg_v2
LegProtos == {MkLeg(k, lp, d) : k \in Kinds, lp \in {BaseLeg, [BaseLeg EXCEPT !.idx = 2]},
                                d \in {1, 2}}
Legs(v) == IF v = 1 THEN {leg_from_proto(l) : l \in LegProtos}
                    ELSE {leg_from_proto_v2(l) : l \in LegProtos}

(***************************************************************************)
(* Spec: the loop of from_protos (version 1) or from_protos_v2 (version 2) *)
(* over a list of swaps, one iteration per step.                           *)
(***************************************************************************)
Idle == /\ swap_a = None /\ swap_b = None /\ call = "none" /\ out = None
        /\ current_leg = None /\ leg = None /\ merged = "none"

Init ==
    /\ version \in {1, 2}
    /\ proto_list = <<>>
    /\ prepare_swaps = EmptyDict
    /\ raised = "none"
    /\ Idle

FromProtosIter(swap_proto) ==
    /\ version = 1
    /\ raised = "none"
    /\ Len(proto_list) < MaxSwaps
    /\ LET r == from_protos_iter(prepare_swaps, swap_proto)
       IN  /\ prepare_swaps' = r.ps
           /\ raised' = r.err
    /\ proto_list' = Append(proto_list, swap_proto)
    /\ UNCHANGED <<version, swap_a, swap_b, call, out, current_leg, leg, merged>>

FromProtosV2Iter(swap_proto) ==
    /\ version = 2
    /\ raised = "none"
    /\ Len(proto_list) < MaxSwaps
    /\ LET r == from_protos_v2_iter(prepare_swaps, swap_proto)
       IN  /\ prepare_swaps' = r.ps
           /\ raised' = r.err
    /\ proto_list' = Append(proto_list, swap_proto)
    /\ UNCHANGED <<version, swap_a, swap_b, call, out, current_leg, leg, merged>>

Next ==
    \/ \E s \in Protos : FromProtosIter(s)
    \/ \E s \in Protos : FromProtosV2Iter(s)

Spec == Init /\ [][Next]_vars

(***************************************************************************)
(* SpecKeys: get_hash, get_hash_v2, from_protos and from_protos_v2 called  *)
(* on two swaps a and b.                                                   *)
(***************************************************************************)
InitKeys ==
    /\ swap_a \in SwapsA
    /\ swap_b \in SwapsB
    /\ call = "none"
    /\ out = None
    /\ version = 0 /\ proto_list = <<>> /\ prepare_swaps = EmptyDict /\ raised = "none"
    /\ current_leg = None /\ leg = None /\ merged = "none"

Returns(f, result) ==
    /\ call = "none"
    /\ call' = f
    /\ out' = result
    /\ UNCHANGED <<version, proto_list, prepare_swaps, raised, swap_a, swap_b,
                   current_leg, leg, merged>>

CallGetHash == Returns("get_hash", <<get_hash(swap_a), get_hash(swap_b)>>)
CallGetHashV2 == Returns("get_hash_v2", <<get_hash_v2(swap_a), get_hash_v2(swap_b)>>)
CallFromProtos == Returns("from_protos", from_protos(<<swap_a, swap_b>>))
CallFromProtosV2 == Returns("from_protos_v2", from_protos_v2(<<swap_a, swap_b>>))

NextKeys == CallGetHash \/ CallGetHashV2 \/ CallFromProtos \/ CallFromProtosV2

SpecKeys == InitKeys /\ [][NextKeys]_vars

(***************************************************************************)
(* SpecMerge: update_leg, update_leg_v2, update_rate_index and             *)
(* update_frequency called on descriptors of either kind.                  *)
(***************************************************************************)
InitMerge ==
    /\ version \in {1, 2}
    /\ current_leg \in Legs(version)
    /\ leg \in Legs(version)
    /\ merged = "none"
    /\ proto_list = <<>> /\ prepare_swaps = EmptyDict /\ raised = "none"
    /\ swap_a = None /\ swap_b = None /\ call = "none" /\ out = None

Outcome(err) == IF err = "none" THEN "ok" ELSE err

\* update_frequency: coupon_frequency becomes a PeriodTensor, and so does
\* reset_frequency where the descriptor has one (a fixed descriptor has none:
\* the AttributeError is caught).
update_frequency(l) ==
    LET converted == [l EXCEPT !.coupon_frequency = period_from_list(@)]
    IN  IF "reset_frequency" \in DOMAIN l
        THEN [converted EXCEPT !.reset_frequency = period_from_list(@)]
        ELSE converted

UpdateLeg(new) ==
    /\ version = 1
    /\ Len(current_leg.notional_amount) < MaxSwaps
    /\ leg' = new
    /\ LET r == update_leg(current_leg, new)
       IN  current_leg' = r.obj /\ merged' = Outcome(r.err)
    /\ call' = "update_leg"
    /\ UNCHANGED <<version, proto_list, prepare_swaps, raised, swap_a, swap_b, out>>

UpdateLegV2(new) ==
    /\ version = 2
    /\ Len(current_leg.notional_amount) < MaxSwaps
    /\ ~IsPeriodTensor(current_leg.coupon_frequency)
    /\ leg' = new
    /\ LET r == update_leg_v2(current_leg, new)
       IN  current_leg' = r.obj /\ merged' = Outcome(r.err)
    /\ call' = "update_leg_v2"
    /\ UNCHANGED <<version, proto_list, prepare_swaps, raised, swap_a, swap_b, out>>

UpdateRateIndex(new) ==
    /\ version = 1
    /\ current_leg.kind = "FloatCouponSpecs"
    /\ new.kind = "FloatCouponSpecs"
    /\ Len(current_leg.floating_rate_type.name) < MaxSwaps
    /\ leg' = new
    /\ LET r == update_rate_index(current_leg.floating_rate_type, new.floating_rate_type)
       IN  /\ current_leg' = [current_leg EXCEPT !.floating_rate_type = r.obj]
           /\ merged' = Outcome(r.err)
    /\ call' = "update_rate_index"
    /\ UNCHANGED <<version, proto_list, prepare_swaps, raised, swap_a, swap_b, out>>

\* update_frequency(current_leg), on a descriptor of leg_from_proto_v2 and
\* update_leg_v2, whose frequencies are the pairs period_from_list takes; it
\* is the last call made on a descriptor.
UpdateFrequency ==
    /\ version = 2
    /\ ~IsPeriodTensor(current_leg.coupon_frequency)
    /\ current_leg' = update_frequency(current_leg)
    /\ merged' = "ok"
    /\ call' = "update_frequency"
    /\ UNCHANGED <<version, proto_list, prepare_swaps, raised, swap_a, swap_b, out, leg>>

NextMerge ==
    \/ \E new \in Legs(1) : UpdateLeg(new)
    \/ \E new \in Legs(2) : UpdateLegV2(new)
    \/ \E new \in Legs(1) : UpdateRateIndex(new)
    \/ UpdateFrequency

SpecMerge == InitMerge /\ [][NextMerge]_vars

(***************************************************************************)
(* Vocabulary of the properties                                            *)
(***************************************************************************)
IsFloating(leg_proto) == ~HasField(leg_proto, "fixed_leg")
LegBody(leg_proto) ==
    IF IsFloating(leg_proto) THEN leg_proto.floating_leg ELSE leg_proto.fixed_leg

\* the structural fields of a leg; a fixed leg has no reset frequency and no index
LegStructure(leg_proto) ==
    LET b == LegBody(leg_proto)
    IN  [cur |-> Some(b.currency),
         cfreq |-> Some(b.coupon_frequency),
         rfreq |-> IF IsFloating(leg_proto) THEN Some(b.reset_frequency) ELSE None,
         dcc |-> Some(b.daycount_convention),
         bdc |-> Some(b.business_day_convention),
         hol |-> Some(b.bank_holidays),
         idx |-> IF IsFloating(leg_proto) THEN Some(b.floating_rate_type.type) ELSE None]

StructFields == {"cur", "cfreq", "rfreq", "dcc", "bdc", "hol", "idx"}

LayoutOf(swap) == <<swap.pay_leg.which, swap.receive_leg.which>>

\* the structural fields two swaps differ in, as <<owner, field>>
Differing(a, b) ==
    {<<"pay", f>> : f \in {g \in StructFields :
                              LegStructure(a.pay_leg)[g] # LegStructure(b.pay_leg)[g]}}
    \cup {<<"rec", f>> : f \in {g \in StructFields :
                              LegStructure(a.receive_leg)[g] # LegStructure(b.receive_leg)[g]}}
    \cup (IF a.currency # b.currency THEN {<<"swap", "cur">>} ELSE {})
    \cup (IF a.bank_holidays # b.bank_holidays THEN {<<"swap", "hol">>} ELSE {})

SameStructure(a, b) == LayoutOf(a) = LayoutOf(b) /\ Differing(a, b) = {}

HashCall == call \in {"get_hash", "get_hash_v2"}
BatchCall == call \in {"from_protos", "from_protos_v2"}
Buckets(result) == DOMAIN result.ps

\* C1: in each pipeline two swaps that agree on every structural field get the
\* same bucket identifier whatever their data are: get_hash / get_hash_v2
\* return the same hash for both, and from_protos / from_protos_v2 put both in
\* one bucket.
C1_SameStructureSameBucket ==
    SameStructure(swap_a, swap_b) =>
        /\ HashCall => out[1][1] = out[2][1]
        /\ BatchCall => out.err = "none" /\ Cardinality(Buckets(out)) = 1

\* two swaps of one structure and different data were batched by from_protos
C1_Witness ==
    /\ call = "from_protos"
    /\ SameStructure(swap_a, swap_b)
    /\ swap_a.pay_leg # swap_b.pay_leg
    /\ swap_a.metadata # swap_b.metadata
    /\ Cardinality(Buckets(out)) = 1

\* the field two swaps of one layout differ in, when it is exactly one
OneFieldApart(a, b) == LayoutOf(a) = LayoutOf(b) /\ Cardinality(Differing(a, b)) = 1
TheField(a, b) == CHOOSE d \in Differing(a, b) : TRUE

\* C2 as stated: in each pipeline two swaps of one layout that differ in
\* exactly one structural field are placed in different buckets.
C2_Original ==
    (BatchCall /\ OneFieldApart(swap_a, swap_b)) => Cardinality(Buckets(out)) = 2

Normalized(freq) == IF freq.type = 5 THEN 3 ELSE freq.type

FieldOf(swap, d) ==
    CASE d[1] = "pay" -> LegStructure(swap.pay_leg)[d[2]]
      [] d[1] = "rec" -> LegStructure(swap.receive_leg)[d[2]]
      [] d = <<"swap", "cur">> -> Some(swap.currency)
      [] d = <<"swap", "hol">> -> Some(swap.bank_holidays)

\* the fields the legacy key reads, and whether the refined key tells a from b
KeyedV1(d) == d[1] = "swap" \/ d[2] \in {"cfreq", "rfreq", "dcc", "bdc", "idx"}
KeyedV2(a, b, d) ==
    \/ d = <<"swap", "hol">>
    \/ d[1] # "swap" /\ d[2] \in {"dcc", "bdc"}
    \/ d[1] # "swap" /\ d[2] \in {"cfreq", "rfreq"}
         /\ Normalized(FieldOf(a, d)[1]) # Normalized(FieldOf(b, d)[1])

\* C2 amended: two swaps of one layout that differ in exactly one structural
\* field are placed in different buckets by from_protos when the field is a
\* coupon or reset frequency (type or amount), the day-count or business-day
\* convention, the rate-index type, or the swap-level currency or calendar,
\* and by from_protos_v2 when it is the day-count or business-day convention,
\* the swap-level calendar, or a frequency whose type differs after 5 is read
\* as 3; in every other case (a leg's own currency or calendar; in v2 also the
\* frequency amount, the rate-index type and the swap-level currency) they
\* share one bucket.
C2_OneFieldApart ==
    (BatchCall /\ OneFieldApart(swap_a, swap_b)) =>
        LET d == TheField(swap_a, swap_b)
            apart == IF call = "from_protos" THEN KeyedV1(d)
                                             ELSE KeyedV2(swap_a, swap_b, d)
        IN  /\ out.err = "none"
            /\ Cardinality(Buckets(out)) = IF apart THEN 2 ELSE 1

\* from_protos_v2 separated two swaps whose day-count conventions alone differ
C2_Witness ==
    /\ call = "from_protos_v2"
    /\ OneFieldApart(swap_a, swap_b)
    /\ TheField(swap_a, swap_b) = <<"pay", "dcc">>
    /\ Cardinality(Buckets(out)) = 2

\* b is a with its pay and receive legs exchanged
Exchanged(a, b) ==
    /\ b.pay_leg = a.receive_leg
    /\ b.receive_leg = a.pay_leg
    /\ b = [a EXCEPT !.pay_leg = a.receive_leg, !.receive_leg = a.pay_leg]

FlipCase(a, b) ==
    /\ IsFloating(a.pay_leg) /\ ~IsFloating(a.receive_leg)
    /\ Exchanged(a, b)

TheBatch(result) == result.ps[CHOOSE h \in Buckets(result) : TRUE]

\* C3: for S paying floating and receiving fixed and S' = S with its legs
\* exchanged, the hash is the same with flip = TRUE for S and FALSE for S';
\* batching [S, S'] gives one bucket whose pay descriptor is the fixed leg and
\* whose receive descriptor the floating leg, entry 1 (from S) carrying the
\* notional of entry 2 (from S') negated and otherwise the same values.
C3_FlipCorrect ==
    FlipCase(swap_a, swap_b) =>
        /\ HashCall => /\ out[1][1] = out[2][1]
                       /\ out[1][2] = TRUE
                       /\ out[2][2] = FALSE
        /\ BatchCall =>
             /\ out.err = "none"
             /\ Cardinality(Buckets(out)) = 1
             /\ LET b == TheBatch(out)
                    fx == decimal_to_double(swap_a.receive_leg.fixed_leg.notional_amount)
                    fl == decimal_to_double(swap_a.pay_leg.floating_leg.notional_amount)
                    rate == decimal_to_double(swap_a.receive_leg.fixed_leg.fixed_rate)
                    spread == decimal_to_double(swap_a.pay_leg.floating_leg.spread)
                IN  /\ b.pay_leg.kind = "FixedCouponSpecs"
                    /\ b.receive_leg.kind = "FloatCouponSpecs"
                    /\ b.pay_leg.notional_amount = <<-fx, fx>>
                    /\ b.receive_leg.notional_amount = <<-fl, fl>>
                    /\ b.pay_leg.fixed_rate = <<rate, rate>>
                    /\ b.receive_leg.spread = <<spread, spread>>

\* from_protos_v2 batched a floating-fixed swap with its exchanged twin
C3_Witness ==
    /\ call = "from_protos_v2"
    /\ FlipCase(swap_a, swap_b)
    /\ TheBatch(out).pay_leg.notional_amount[1] < 0
    /\ TheBatch(out).pay_leg.notional_amount[2] > 0

(***************************************************************************)
(* Properties of the batching loop (Spec)                                  *)
(***************************************************************************)
\* (h, flip_legs) of every swap of the input domain, per pipeline
HashTable ==
    [v \in {1, 2} |-> [s \in Protos |-> IF v = 1 THEN get_hash(s) ELSE get_hash_v2(s)]]

HashOf(swap) == HashTable[version][swap]

\* the positions in proto_list of the swaps that hashed to h, in input order
Contributors(h) ==
    SelectSeq([i \in 1..Len(proto_list) |-> i],
              LAMBDA i : HashOf(proto_list[i])[1] = h)

\* the pair (pay, receive) of single-swap descriptors a swap contributes
Materialized(swap) ==
    IF version = 1
    THEN ShuffleLegs(leg_from_proto(swap.pay_leg), leg_from_proto(swap.receive_leg),
                     HashOf(swap)[2])
    ELSE ShuffleLegs(leg_from_proto_v2(swap.pay_leg), leg_from_proto_v2(swap.receive_leg),
                     HashOf(swap)[2])

At(seq, i, x) == i \in DOMAIN seq /\ seq[i] = x

\* entry i of every accumulated sequence of descriptor d is the entry of `one`
EntryFrom(d, i, one) ==
    /\ d.kind = one.kind
    /\ At(d.notional_amount, i, one.notional_amount[1])
    /\ At(d.settlement_days, i, one.settlement_days[1])
    /\ d.kind = "FixedCouponSpecs" => At(d.fixed_rate, i, one.fixed_rate[1])
    /\ d.kind = "FloatCouponSpecs" => At(d.spread, i, one.spread[1])
    /\ (d.kind = "FloatCouponSpecs" /\ version = 1) =>
          /\ At(d.floating_rate_type.name, i, one.floating_rate_type.name[1])
          /\ At(d.floating_rate_type.source, i, one.floating_rate_type.source[1])
    /\ (d.kind = "FloatCouponSpecs" /\ version = 2) =>
          /\ At(d.floating_rate_type, i, one.floating_rate_type[1])
          /\ At(d.reset_frequency[2], i, one.reset_frequency[2][1])
    /\ version = 2 =>
          /\ At(d.currency, i, one.currency[1])
          /\ At(d.coupon_frequency[2], i, one.coupon_frequency[2][1])

\* C4: in every bucket, entry i of every accumulated sequence of the pay and
\* receive descriptors and entry i of start_date, maturity_date and
\* batch_names all come from the i-th swap, in input order, that hashed to
\* the bucket.
C4_MergeOrder ==
    \A h \in DOMAIN prepare_swaps :
        LET c == Contributors(h)
            b == prepare_swaps[h]
        IN  /\ Len(b.batch_names) = Len(c)
            /\ \A i \in 1..Len(c) :
                 LET s == proto_list[c[i]]
                     m == Materialized(s)
                 IN  /\ EntryFrom(b.pay_leg, i, m[1])
                     /\ EntryFrom(b.receive_leg, i, m[2])
                     /\ At(b.start_date, i, DateList(s.effective_date))
                     /\ At(b.maturity_date, i, DateList(s.maturity_date))
                     /\ At(b.batch_names, i, <<s.metadata.id, s.metadata.instrument_type>>)

\* three swaps with different data were merged into one bucket, a flipped one
\* among them
C4_Witness ==
    /\ Len(proto_list) = 3
    /\ Cardinality(DOMAIN prepare_swaps) = 1
    /\ proto_list[1] # proto_list[2] /\ proto_list[2] # proto_list[3]
    /\ \E i \in 1..3 : HashOf(proto_list[i])[2]
    /\ \A h \in DOMAIN prepare_swaps : Len(prepare_swaps[h].pay_leg.notional_amount) = 3

\* the lengths of the accumulated sequences of a descriptor
Lengths(d) ==
    {Len(d.notional_amount), Len(d.settlement_days)}
    \cup (IF d.kind = "FixedCouponSpecs" THEN {Len(d.fixed_rate)} ELSE {Len(d.spread)})
    \cup (IF d.kind = "FloatCouponSpecs" /\ version = 1
          THEN {Len(d.floating_rate_type.name), Len(d.floating_rate_type.source)} ELSE {})
    \cup (IF d.kind = "FloatCouponSpecs" /\ version = 2
          THEN {Len(d.floating_rate_type), Len(d.reset_frequency[2])} ELSE {})
    \cup (IF version = 2 THEN {Len(d.currency), Len(d.coupon_frequency[2])} ELSE {})

BatchSize(b) == Len(b.batch_names)

RECURSIVE TotalSize(_, _)
TotalSize(ps, hs) ==
    IF hs = {} THEN 0
    ELSE LET h == CHOOSE x \in hs : TRUE
         IN  BatchSize(ps[h]) + TotalSize(ps, hs \ {h})

C5_Lengths ==
    /\ \A h \in DOMAIN prepare_swaps :
          LET b == prepare_swaps[h]
          IN  /\ BatchSize(b) >= 1
              /\ Len(b.start_date) = BatchSize(b)
              /\ Len(b.maturity_date) = BatchSize(b)
              /\ Lengths(b.pay_leg) = {BatchSize(b)}
              /\ Lengths(b.receive_leg) = {BatchSize(b)}
    /\ TotalSize(prepare_swaps, DOMAIN prepare_swaps) = Len(proto_list)

IsPrefix(s, t) == Len(s) <= Len(t) /\ SubSeq(t, 1, Len(s)) = s

C5_NoShrink ==
    \A h \in DOMAIN prepare_swaps :
        /\ h \in DOMAIN prepare_swaps'
        /\ IsPrefix(prepare_swaps[h].batch_names, prepare_swaps'[h].batch_names)
        /\ IsPrefix(prepare_swaps[h].start_date, prepare_swaps'[h].start_date)
        /\ IsPrefix(prepare_swaps[h].pay_leg.notional_amount,
                    prepare_swaps'[h].pay_leg.notional_amount)
        /\ IsPrefix(prepare_swaps[h].receive_leg.notional_amount,
                    prepare_swaps'[h].receive_leg.notional_amount)

\* C5: after every swap processed, in every bucket all accumulated sequences
\* of the pay and of the receive descriptor have one length, the number of
\* swaps folded into the bucket, which is also the length of start_date,
\* maturity_date and batch_names; these lengths sum to the number of swaps
\* processed; and a step never removes a bucket or shortens a sequence.
C5_EqualLength == [](C5_Lengths) /\ [][C5_NoShrink]_vars

\* from_protos_v2 holds a bucket of two swaps beside a bucket of one
C5_Witness ==
    /\ version = 2
    /\ Len(proto_list) = 3
    /\ \E h1, h2 \in DOMAIN prepare_swaps :
          /\ Lengths(prepare_swaps[h1].receive_leg) = {2}
          /\ Lengths(prepare_swaps[h2].receive_leg) = {1}

(***************************************************************************)
(* Properties of update_leg and update_leg_v2 (SpecMerge)                  *)
(***************************************************************************)
\* C6: update_leg and update_leg_v2 called with a current leg of one kind and
\* a new leg of the other kind raise the type-mismatch error and leave
\* current_leg as it was: nothing is concatenated.
C6_NoCoercion ==
    [][ (call' \in {"update_leg", "update_leg_v2"} /\ leg'.kind # current_leg.kind) =>
            (merged' = TypeMismatch /\ current_leg' = current_leg) ]_vars

\* a floating leg was refused by a fixed descriptor that holds two swaps
C6_Witness ==
    /\ call = "update_leg"
    /\ merged = TypeMismatch
    /\ current_leg.kind = "FixedCouponSpecs"
    /\ leg.kind = "FloatCouponSpecs"
    /\ Len(current_leg.notional_amount) = 2
    /\ Len(current_leg.fixed_rate) = 2

(***************************************************************************)
(* Rate-index types within a batch (Spec)                                  *)
(***************************************************************************)
Sides == {1, 2}
SideOf(b, side) == IF side = 1 THEN b.pay_leg ELSE b.receive_leg

\* the rate-index type of a single-swap floating descriptor
IndexTypeOf(one) ==
    IF version = 1 THEN one.floating_rate_type.type ELSE one.floating_rate_type[1].type

\* the rate-index types a floating descriptor of bucket h holds: its own and
\* those of the swaps folded into it
HeldTypes(h, side) ==
    LET d == SideOf(prepare_swaps[h], side)
        c == Contributors(h)
    IN  (IF version = 1 THEN {d.floating_rate_type.type}
                        ELSE {d.floating_rate_type[i].type : i \in DOMAIN d.floating_rate_type})
        \cup {IndexTypeOf(Materialized(proto_list[c[i]])[side]) : i \in 1..Len(c)}

FloatingSlots ==
    {hs \in (DOMAIN prepare_swaps) \X Sides :
        SideOf(prepare_swaps[hs[1]], hs[2]).kind = "FloatCouponSpecs"}

\* the single-swap floating descriptors of the swaps processed so far
FloatingInputs ==
    {x \in {Materialized(proto_list[i])[side] : i \in 1..Len(proto_list), side \in Sides} :
        x.kind = "FloatCouponSpecs"}

\* C7 as stated: in either pipeline no batch holds rate-index entries of two
\* different types in one leg descriptor.
C7_Original ==
    \A hs \in FloatingSlots : Cardinality(HeldTypes(hs[1], hs[2])) = 1

\* C7 amended: update_rate_index raises "Can not join <t1> and <t2>" exactly
\* when the two types differ, and no batch of from_protos holds rate-index
\* entries of two types in one descriptor; update_leg_v2 does not call
\* update_rate_index and concatenates the rate-index entries of a floating
\* leg whatever their types, without raising.
C7_LegacyOnly ==
    /\ version = 1 =>
         /\ \A hs \in FloatingSlots : Cardinality(HeldTypes(hs[1], hs[2])) = 1
         /\ \A hs \in FloatingSlots : \A one \in FloatingInputs :
              LET cur == SideOf(prepare_swaps[hs[1]], hs[2]).floating_rate_type
                  new == one.floating_rate_type
                  r == update_rate_index(cur, new)
              IN  IF cur.type # new.type
                  THEN r.err = "ValueError: Can not join " \o ToString(cur.type[2])
                                   \o " and " \o ToString(new.type[2])
                  ELSE r.err = "none" /\ r.obj.name = cur.name \o new.name
    /\ version = 2 =>
         \A hs \in FloatingSlots : \A one \in FloatingInputs :
              LET cur == SideOf(prepare_swaps[hs[1]], hs[2])
                  r == update_leg_v2(cur, one)
              IN  /\ r.err = "none"
                  /\ r.obj.floating_rate_type = cur.floating_rate_type \o one.floating_rate_type

\* from_protos holds a floating descriptor of two swaps, and a swap with
\* another rate-index type went to another bucket
C7_Witness ==
    /\ version = 1
    /\ \E hs \in FloatingSlots :
          /\ Len(SideOf(prepare_swaps[hs[1]], hs[2]).floating_rate_type.name) = 2
          /\ \E one \in FloatingInputs :
                one.floating_rate_type.type
                    # SideOf(prepare_swaps[hs[1]], hs[2]).floating_rate_type.type

(***************************************************************************)
(* Legacy and refined grouping (SpecKeys)                                  *)
(***************************************************************************)
FlipsLegs(swap) == IsFloating(swap.pay_leg) /\ ~IsFloating(swap.receive_leg)

\* the descriptor of batch b that holds the pay (d = "pay") or receive leg of swap
DescriptorOf(b, swap, owner) ==
    IF (owner = "pay") # FlipsLegs(swap) THEN b.pay_leg ELSE b.receive_leg

FreqApart(a, b) ==
    /\ OneFieldApart(a, b)
    /\ TheField(a, b)[1] # "swap"
    /\ TheField(a, b)[2] \in {"cfreq", "rfreq"}

FreqA == FieldOf(swap_a, TheField(swap_a, swap_b))[1]
FreqB == FieldOf(swap_b, TheField(swap_a, swap_b))[1]

\* C8: two swaps that differ only in a coupon-frequency amount, 3 against 6,
\* are put in two buckets by from_protos and in one bucket by from_protos_v2,
\* whose descriptor records the amounts in input order; get_hash_v2 keys
\* frequency type 5 as type 3 and every other type as itself, and the v2
\* descriptor records the type so normalized.
C8_LegacyVersusRefined ==
    /\ (FreqApart(swap_a, swap_b) /\ TheField(swap_a, swap_b)[2] = "cfreq"
          /\ FreqA.type = FreqB.type /\ {FreqA.amount, FreqB.amount} = {3, 6}) =>
         /\ call = "from_protos" => Cardinality(Buckets(out)) = 2
         /\ call = "from_protos_v2" =>
              /\ Cardinality(Buckets(out)) = 1
              /\ DescriptorOf(TheBatch(out), swap_a, TheField(swap_a, swap_b)[1])
                     .coupon_frequency[2] = <<1 * FreqA.amount, 1 * FreqB.amount>>
    /\ (FreqApart(swap_a, swap_b) /\ FreqA.amount = FreqB.amount) =>
         /\ call = "get_hash_v2" =>
              (out[1][1] = out[2][1]) = ({FreqA.type, FreqB.type} = {3, 5})
         /\ call = "from_protos_v2" =>
              (Cardinality(Buckets(out)) = 1) = ({FreqA.type, FreqB.type} = {3, 5})
    /\ call = "from_protos_v2" =>
         \A owner \in {"pay", "rec"} :
            LET lp == IF owner = "pay" THEN swap_a.pay_leg ELSE swap_a.receive_leg
                d == DescriptorOf(out.ps[get_hash_v2(swap_a)[1]], swap_a, owner)
            IN  /\ d.coupon_frequency[1] = Normalized(LegBody(lp).coupon_frequency)
                /\ IsFloating(lp) =>
                      d.reset_frequency[1] = Normalized(LegBody(lp).reset_frequency)

\* from_protos_v2 merged a swap of amount 3 with one of amount 6
C8_Witness ==
    /\ call = "from_protos_v2"
    /\ FreqApart(swap_a, swap_b)
    /\ FreqA.type = FreqB.type
    /\ Cardinality(Buckets(out)) = 1
    /\ TheBatch(out).pay_leg.coupon_frequency[2] = <<3, 6>>

(***************************************************************************)
(* Leg kinds and the flip (Spec)                                           *)
(***************************************************************************)
\* C9: swaps with the same bucket identifier have canonical pay legs of one
\* kind and canonical receive legs of one kind, so the loop never raises the
\* type-mismatch error; the flip fires exactly for a floating pay leg with a
\* fixed receive leg.
C9_SameKeySameKinds ==
    /\ raised = "none"
    /\ \A i \in 1..Len(proto_list) :
          HashOf(proto_list[i])[2] = FlipsLegs(proto_list[i])
    /\ \A i, j \in 1..Len(proto_list) :
          HashOf(proto_list[i])[1] = HashOf(proto_list[j])[1] =>
             \A side \in Sides :
                Materialized(proto_list[i])[side].kind = Materialized(proto_list[j])[side].kind
    /\ \A h \in DOMAIN prepare_swaps : \A i \in 1..Len(Contributors(h)) : \A side \in Sides :
          SideOf(prepare_swaps[h], side).kind
              = Materialized(proto_list[Contributors(h)[i]])[side].kind

\* a flipped swap was merged with an unflipped one after a floating-floating
\* swap went through unflipped
C9_Witness ==
    /\ Len(proto_list) = 3
    /\ raised = "none"
    /\ LayoutOf(proto_list[1]) = <<"floating_leg", "floating_leg">>
    /\ ~HashOf(proto_list[2])[2]
    /\ HashOf(proto_list[3])[2]
    /\ HashOf(proto_list[2])[1] = HashOf(proto_list[3])[1]

(***************************************************************************)
(* Order of the input (Spec)                                               *)
(***************************************************************************)
InputOrders(n) ==
    {f \in [1..n -> 1..n] : \A i, j \in 1..n : f[i] = f[j] => i = j}

BagOfSeq(seq) ==
    [x \in {seq[i] : i \in DOMAIN seq} |-> Cardinality({i \in DOMAIN seq : seq[i] = x})]

\* a descriptor with its accumulated sequences read as multisets
AsBags(d) ==
    LET common == [d EXCEPT !.notional_amount = BagOfSeq(@),
                            !.settlement_days = BagOfSeq(@)]
        kinded == IF d.kind = "FixedCouponSpecs"
                  THEN [common EXCEPT !.fixed_rate = BagOfSeq(@)]
                  ELSE IF version = 1
                  THEN [common EXCEPT !.spread = BagOfSeq(@),
                                      !.floating_rate_type.name = BagOfSeq(@),
                                      !.floating_rate_type.source = BagOfSeq(@)]
                  ELSE [common EXCEPT !.spread = BagOfSeq(@),
                                      !.floating_rate_type = BagOfSeq(@),
                                      !.reset_frequency = <<@[1], BagOfSeq(@[2])>>]
    IN  IF version = 1 THEN kinded
        ELSE [kinded EXCEPT !.currency = BagOfSeq(@),
                            !.coupon_frequency = <<@[1], BagOfSeq(@[2])>>]

Contents(ps) ==
    [h \in DOMAIN ps |->
        [ps[h] EXCEPT !.start_date = BagOfSeq(@),
                      !.maturity_date = BagOfSeq(@),
                      !.batch_names = BagOfSeq(@),
                      !.pay_leg = AsBags(@),
                      !.receive_leg = AsBags(@)]]

Rerun(list) == IF version = 1 THEN from_protos(list) ELSE from_protos_v2(list)

\* C10: every permutation of the input gives the same bucket identifiers and
\* in each bucket the same contents: the same non-accumulated descriptor
\* fields and the same multisets of accumulated entries, dates and metadata.
C10_OrderIndependent ==
    \A f \in InputOrders(Len(proto_list)) :
        Contents(Rerun([i \in 1..Len(proto_list) |-> proto_list[f[i]]]).ps)
            = Contents(prepare_swaps)

(***************************************************************************)
(* Failed merges (SpecMerge)                                               *)
(***************************************************************************)
\* the accumulated sequences of a descriptor
Accumulated(d) ==
    LET common == [notional_amount |-> d.notional_amount,
                   settlement_days |-> d.settlement_days,
                   rate_or_spread |-> IF d.kind = "FixedCouponSpecs"
                                      THEN d.fixed_rate ELSE d.spread]
        index == IF d.kind # "FloatCouponSpecs" THEN <<>>
                 ELSE IF version = 1
                 THEN <<d.floating_rate_type.name, d.floating_rate_type.source>>
                 ELSE <<d.floating_rate_type, d.reset_frequency[2]>>
        refined == IF version = 1 THEN <<>> ELSE <<d.currency, d.coupon_frequency[2]>>
    IN  <<common, index, refined>>

EqualLength(d) == Cardinality(Lengths(d)) = 1

Failed(outcome) == outcome \notin {"none", "ok"}

Merges == {"update_leg", "update_leg_v2", "update_rate_index"}

\* C11: whenever update_leg, update_leg_v2 or update_rate_index raises, every
\* accumulated sequence of current_leg has the value it had before the call,
\* so a descriptor whose sequences had one length still has it after the
\* error.
C11_FailedMergeUnchanged ==
    [][ (call' \in Merges /\ Failed(merged')) =>
            /\ Accumulated(current_leg') = Accumulated(current_leg)
            /\ EqualLength(current_leg) => EqualLength(current_leg') ]_vars

====
